---------------------------- MODULE Spec2Model ----------------------------
(***************************************************************************)
(* Facility location optimizer: the data store (DataManager), the          *)
(* clustering call (Optimizer.run_kmeans, a single KMeans fit seeded with  *)
(* the initial facilities) and the button handlers of KMeansApp.           *)
(*                                                                         *)
(* Coordinates are small integers.  Cluster centres are rationals; they    *)
(* are held exactly as integer pairs in units of 1/Scale, where Scale is a *)
(* multiple of every possible cluster size.                                *)
(***************************************************************************)
EXTENDS Integers, Sequences, FiniteSets, TLC

\* ------------------------------------------------------------- bounds
\* Lengths of the two sequences offered to the clustering call on its own:
\* over the points of a small grid, and over widely spread points.
MaxCustomers == 3
MaxFacilities == 3
MaxSpreadCustomers == 4
MaxSpreadFacilities == 2
\* Lengths the data store may grow to under the handlers, and of a file.
MaxStoredCustomers == 2
MaxStoredFacilities == 2
MaxRows == 2

\* Defaults of the KMeans constructor used by run_kmeans.
max_iter == 300
TolInverse == 10000

\* Points offered to the clustering call when it is checked on its own.
Points == {<<0, 0>>, <<1, 0>>, <<0, 2>>}
\* Widely spread customers (their variance sets the fit's tolerance) and the
\* facilities offered with them.
SpreadCustomers == {<<1, 0>>, <<4, 0>>, <<0, 100>>, <<0, -100>>}
SpreadFacilities == {<<2, 0>>, <<0, 0>>}
\* Values typed into the X and Y entries, and found in imported rows.
EntryXs == {0, 2}
EntryYs == {1}
EntryPoints == {<<x, y>> : x \in EntryXs, y \in EntryYs}
\* The value float() returns for the text "nan": a float that is not a number.
NaN == -1000
IsNumber(v) == v # NaN
HasNaN(points) ==
    \E i \in 1..Len(points) : ~IsNumber(points[i][1]) \/ ~IsNumber(points[i][2])

\* The four corners of a square and two facilities near opposite corners.
ScenarioCustomers == <<<<0, 0>>, <<10, 0>>, <<0, 10>>, <<10, 10>>>>
ScenarioFacilities == <<<<1, 1>>, <<9, 9>>>>

SeqsUpTo(S, n) == UNION {[1..m -> S] : m \in 0..n}
\* The permutations of the positions of a sequence, and the sequence
\* rearranged by one: position i of the result holds s[pi[i]].
Perms(n) == {pi \in [1..n -> 1..n] : \A i, j \in 1..n : pi[i] = pi[j] => i = j}
Permuted(s, pi) == [i \in 1..Len(s) |-> s[pi[i]]]
Orders(s) == {Permuted(s, pi) : pi \in Perms(Len(s))}

\* Optional values: None, or a value wrapped by Some.
None == <<>>
Some(v) == <<v>>

VARIABLES
    customer_data,               \* DataManager.customer_data
    initial_facility_locations,  \* DataManager.initial_facility_locations
    optimal_facility_locations,  \* DataManager.optimal_facility_locations
    cluster_labels,              \* DataManager.cluster_labels
    message,                     \* title of the dialog the last handler showed
    last_op,                     \* the handler that ran last
    kmeans_called,               \* whether the last handler invoked run_kmeans
    circles,                     \* radii of the service circles in the axes
    limit_radii                  \* radii the last redraw used for the limits

vars == <<customer_data, initial_facility_locations, optimal_facility_locations,
          cluster_labels, message, last_op, kmeans_called, circles, limit_radii>>

plot == <<circles, limit_radii>>

store == <<customer_data, initial_facility_locations, optimal_facility_locations,
           cluster_labels>>

\* ------------------------------------------------- the clustering call
Max2(x, y) == IF x >= y THEN x ELSE y
Min2(x, y) == IF x <= y THEN x ELSE y

RECURSIVE Gcd(_, _)
Gcd(a, b) == IF b = 0 THEN a ELSE Gcd(b, a % b)

\* The least common multiple of 1..n.
RECURSIVE LcmUpTo(_)
LcmUpTo(n) == IF n <= 1 THEN 1
              ELSE (LcmUpTo(n - 1) * n) \div Gcd(LcmUpTo(n - 1), n)

\* Centres are held in units of 1/Scale: every mean of up to the largest
\* number of customers is then an integer pair.
Scale ==
    LcmUpTo(Max2(MaxCustomers, Max2(MaxSpreadCustomers, MaxStoredCustomers)))

\* The sum of coordinate d of the samples idxs of X.
SumCoord(X, idxs, d) ==
    LET RECURSIVE Go(_)
        Go(i) == IF i = 0 THEN 0
                 ELSE (IF i \in idxs THEN X[i][d] ELSE 0) + Go(i - 1)
    IN Go(Len(X))

\* Squared Euclidean distance between a sample and a centre (units 1/Scale^2).
SqDist(p, c) ==
    (Scale * p[1] - c[1]) * (Scale * p[1] - c[1])
    + (Scale * p[2] - c[2]) * (Scale * p[2] - c[2])

\* Nearest breaking ties towards the last centre at minimal distance.
NearestLastOnTies(p, centers) ==
    CHOOSE j \in 1..Len(centers) :
        \A i \in 1..Len(centers) :
            \/ SqDist(p, centers[j]) < SqDist(p, centers[i])
            \/ SqDist(p, centers[j]) = SqDist(p, centers[i]) /\ j >= i

\* The label of a sample: the first centre at minimal distance.
Nearest(p, centers) ==
    CHOOSE j \in 1..Len(centers) :
        \A i \in 1..Len(centers) :
            \/ SqDist(p, centers[j]) < SqDist(p, centers[i])
            \/ SqDist(p, centers[j]) = SqDist(p, centers[i]) /\ j <= i

\* E-step: labels are 0-based cluster indices, one per sample.
EStep(X, centers) == [i \in 1..Len(X) |-> Nearest(X[i], centers) - 1]

Members(labels, j) == {i \in 1..Len(labels) : labels[i] = j - 1}

\* The mean of all samples: the origin of the centred data the fit works on.
XMean(X) ==
    <<(Scale * SumCoord(X, 1..Len(X), 1)) \div Len(X),
      (Scale * SumCoord(X, 1..Len(X), 2)) \div Len(X)>>

\* AverageCenter with the division by the cluster's weight left out.
AverageCenterUnscaled(X, idxs) ==
    IF idxs = {} THEN XMean(X)
    ELSE <<Scale * SumCoord(X, idxs, 1), Scale * SumCoord(X, idxs, 2)>>

\* The mean of the samples idxs; with no sample left the accumulated sum is
\* the zero vector of the centred data and is left unscaled.
AverageCenter(X, idxs) ==
    IF idxs = {} THEN XMean(X)
    ELSE <<(Scale * SumCoord(X, idxs, 1)) \div Cardinality(idxs),
           (Scale * SumCoord(X, idxs, 2)) \div Cardinality(idxs)>>

EmptyClusters(labels, k) == {j \in 1..k : Members(labels, j) = {}}

\* The samples that may be taken for the empty clusters: any ordering of any
\* set of the n_empty samples farthest from their centres.  The order among
\* equal distances, and within the chosen set, is the partition routine's.
FarChoices(X, centers, labels) ==
    LET k == Len(centers)
        E == EmptyClusters(labels, k)
        d == [i \in 1..Len(X) |-> SqDist(X[i], centers[labels[i] + 1])]
    IN IF E = {} \/ \A i \in 1..Len(X) : d[i] = 0
       THEN {[j \in {} |-> 0]}
       ELSE {q \in [E -> 1..Len(X)] :
                /\ \A a, b \in E : a # b => q[a] # q[b]
                /\ \A a \in E : \A i \in 1..Len(X) :
                       (\A b \in E : q[b] # i) => d[i] <= d[q[a]]}

\* The partition routine is a function of the distances alone: among equally
\* distant samples a build takes them by position.  Two such builds: one
\* prefers the first positions, one the last.
TieRules == {"first", "last"}
Preferred(rule, d, a, b) ==
    \/ d[a] > d[b]
    \/ d[a] = d[b] /\ IF rule = "first" THEN a < b ELSE a > b

\* The choice of one build: the n_empty most preferred samples, given to the
\* empty clusters in order of preference.
FarChoicesOf(rule, X, centers, labels) ==
    LET d == [i \in 1..Len(X) |-> SqDist(X[i], centers[labels[i] + 1])]
    IN {q \in FarChoices(X, centers, labels) :
           /\ \A a \in DOMAIN q : \A i \in 1..Len(X) :
                  (\A b \in DOMAIN q : q[b] # i) => Preferred(rule, d, q[a], i)
           /\ \A a, b \in DOMAIN q :
                  a < b => Preferred(rule, d, q[a], q[b])}

\* The choices open to the fit: those of the given build, or of any.
Far(rule, X, centers, labels) ==
    IF rule = "any" THEN FarChoices(X, centers, labels)
    ELSE FarChoicesOf(rule, X, centers, labels)

\* MStep with the update left out: every centre stays where it was.
MStepKeepsCenters(X, centers, labels, q) == centers

\* M-step: the mean of each cluster, after the empty clusters were relocated
\* onto the samples q (a function from empty cluster to sample).
MStep(X, centers, labels, q) ==
    LET moved == {q[j] : j \in DOMAIN q}
    IN [j \in 1..Len(centers) |->
           IF j \in DOMAIN q
           THEN <<Scale * X[q[j]][1], Scale * X[q[j]][2]>>
           ELSE AverageCenter(X, Members(labels, j) \ moved)]

ShiftTot(old, new) ==
    LET RECURSIVE Go(_)
        Go(j) == IF j = 0 THEN 0
                 ELSE (new[j][1] - old[j][1]) * (new[j][1] - old[j][1])
                      + (new[j][2] - old[j][2]) * (new[j][2] - old[j][2])
                      + Go(j - 1)
    IN Go(Len(old))

\* n^2 times the sum of the per-coordinate variances of the samples.
VarSum(X) ==
    LET n == Len(X)
        all == 1..n
        sq == [i \in all |-> <<X[i][1] * X[i][1], X[i][2] * X[i][2]>>]
    IN n * SumCoord(sq, all, 1) - SumCoord(X, all, 1) * SumCoord(X, all, 1)
       + n * SumCoord(sq, all, 2) - SumCoord(X, all, 2) * SumCoord(X, all, 2)

\* center_shift_tot <= tol, with tol = mean(var(X)) / TolInverse.  In the
\* model's units this is shift * 2 * TolInverse <= (Scale / n)^2 * VarSum; the
\* comparison is made against the floor of the quotient, which is exact.
WithinTol(X, old, new) ==
    ShiftTot(old, new)
        <= ((Scale \div Len(X)) * (Scale \div Len(X)) * VarSum(X))
               \div (2 * TolInverse)

\* Lloyd's iterations from the given centres: the set of results the fit can
\* end with.  One iteration assigns the labels, updates the centres and stops
\* when the labels repeat (the centres then are those of these labels), or
\* when the centres moved within the tolerance or max_iter is reached (the
\* labels are then assigned once more, from the last centres).  labels, q and
\* cn are bound through singleton sets so that each is computed once.
RECURSIVE Lloyd(_, _, _, _, _)
Lloyd(rule, X, centers, labels_old, it) ==
    UNION { UNION { UNION {
            IF labels = labels_old
            THEN {[centers |-> cn, labels |-> labels]}
            ELSE IF WithinTol(X, centers, cn) \/ it + 1 >= max_iter
            THEN {[centers |-> cn, labels |-> EStep(X, cn)]}
            ELSE Lloyd(rule, X, cn, labels, it + 1)
         : cn \in {MStep(X, centers, labels, q)}}
         : q \in Far(rule, X, centers, labels)}
         : labels \in {EStep(X, centers)}}

Failure == [ok |-> FALSE, centers |-> <<>>, labels |-> <<>>]

\* KMeansFit returning cluster numbers 1..k instead of indices 0..k-1.
KMeansFitOneBasedLabels(X, init) ==
    IF HasNaN(X) \/ HasNaN(init)
         \/ Len(init) < 1 \/ Len(X) < 1 \/ Len(X) < Len(init)
    THEN {Failure}
    ELSE {[ok |-> TRUE, centers |-> r.centers,
           labels |-> [i \in 1..Len(X) |-> r.labels[i] + 1]] :
            r \in Lloyd("any", X, [j \in 1..Len(init) |->
                               <<Scale * init[j][1], Scale * init[j][2]>>],
                         [i \in 1..Len(X) |-> -1], 0)}

\* KMeansFit without the check that there are at least as many samples as
\* clusters.
KMeansFitNoSampleCheck(X, init) ==
    IF HasNaN(X) \/ HasNaN(init) \/ Len(init) < 1 \/ Len(X) < 1
    THEN {Failure}
    ELSE {[ok |-> TRUE, centers |-> r.centers, labels |-> r.labels] :
            r \in Lloyd("any", X, [j \in 1..Len(init) |->
                               <<Scale * init[j][1], Scale * init[j][2]>>],
                         [i \in 1..Len(X) |-> -1], 0)}

\* KMeans(n_clusters=k, init=initial_locations, n_init=1).fit(customers)
KMeansFit(X, init) ==
    IF HasNaN(X) \/ HasNaN(init)
         \/ Len(init) < 1 \/ Len(X) < 1 \/ Len(X) < Len(init)
    THEN {Failure}
    ELSE {[ok |-> TRUE, centers |-> r.centers, labels |-> r.labels] :
            r \in Lloyd("any", X, [j \in 1..Len(init) |->
                               <<Scale * init[j][1], Scale * init[j][2]>>],
                         [i \in 1..Len(X) |-> -1], 0)}

\* The fit as one build computes it.
KMeansFitBuild(rule, X, init) ==
    IF HasNaN(X) \/ HasNaN(init)
         \/ Len(init) < 1 \/ Len(X) < 1 \/ Len(X) < Len(init)
    THEN {Failure}
    ELSE {[ok |-> TRUE, centers |-> r.centers, labels |-> r.labels] :
            r \in Lloyd(rule, X, [j \in 1..Len(init) |->
                               <<Scale * init[j][1], Scale * init[j][2]>>],
                         [i \in 1..Len(X) |-> -1], 0)}

run_kmeans(customers, facilities) == KMeansFit(customers, facilities)

\* ------------------------------------------------------------ the plot
MaxOf(S) == CHOOSE m \in S : \A x \in S : x <= m
MinOf(S) == CHOOSE m \in S : \A x \in S : m <= x

\* The largest of the distances from the points to the centre c, as numpy
\* computes it: NaN as soon as one coordinate is NaN.  Distances are held as
\* their squares (units 1/Scale^2); the square root is increasing, so the
\* largest distance is the root of the largest square.
MaxNorm(cluster_points, c) ==
    IF \E p \in cluster_points : ~IsNumber(p[1]) \/ ~IsNumber(p[2])
    THEN NaN
    ELSE MaxOf({SqDist(p, c) : p \in cluster_points})

\* circle_radii taking the smallest distance of each cluster.
circle_radii_Smallest(customers, optimal_locations, labels) ==
    [i \in 1..Len(optimal_locations) |->
        LET cluster_points ==
                {customers[n] : n \in {m \in 1..Len(customers) : labels[m] = i - 1}}
        IN  IF cluster_points # {}
            THEN MinOf({SqDist(p, optimal_locations[i]) : p \in cluster_points})
            ELSE 0]

\* Plotter._plot_optimal_facilities: the radius of each facility's circle.
circle_radii(customers, optimal_locations, labels) ==
    [i \in 1..Len(optimal_locations) |->
        LET cluster_points ==
                {customers[n] : n \in {m \in 1..Len(customers) : labels[m] = i - 1}}
        IN  IF cluster_points # {}
            THEN MaxNorm(cluster_points, optimal_locations[i])
            ELSE 0]

\* Plotter._adjust_plot_limits: the radii from which the largest is taken to
\* widen the limits.
adjust_radii(customers, optimal_data, labels) ==
    [i \in 1..Len(optimal_data) |->
        LET cluster_points ==
                {customers[n] : n \in {m \in 1..Len(customers) : labels[m] = i - 1}}
        IN  IF cluster_points # {}
            THEN MaxNorm(cluster_points, optimal_data[i])
            ELSE 0]

\* Plotter.update_plot on the given store: the exception it raises, if any.
\* With a result present the customers are indexed by the stored labels; the
\* axis limits are set from every plotted coordinate and refuse NaN.
update_plot(customers, facilities, optimal, labels) ==
    IF customers = <<>> THEN "none"
    ELSE IF optimal # None /\ labels # None /\ Len(labels[1]) # Len(customers)
    THEN "IndexError"
    ELSE IF HasNaN(customers) \/ HasNaN(facilities)
    THEN "ValueError"
    ELSE "none"

\* What Plotter.update_plot leaves behind on the given store.  The axes are
\* cleared first; circles are added, and radii computed for the limits, only
\* when a result is present and the customers can be indexed by its labels.
Redraw(customers, facilities, optimal, labels) ==
    IF /\ customers # <<>>
       /\ optimal # None /\ labels # None
       /\ update_plot(customers, facilities, optimal, labels) # "IndexError"
    THEN /\ circles' = Some(circle_radii(customers, optimal[1], labels[1]))
         /\ limit_radii' = Some(adjust_radii(customers, optimal[1], labels[1]))
    ELSE /\ circles' = None
         /\ limit_radii' = None

\* -------------------------------------------------------- the handlers
Init ==
    /\ customer_data = <<>>
    /\ initial_facility_locations = <<>>
    /\ optimal_facility_locations = None
    /\ cluster_labels = None
    /\ message = "none"
    /\ last_op = "init"
    /\ kmeans_called = FALSE
    /\ circles = None
    /\ limit_radii = None

\* RunCalculation dropping the stored labels before the call, so that a failed
\* call leaves the locations without their labels.
RunCalculationDropsLabels ==
    /\ last_op' = "calculate"
    /\ IF customer_data = <<>>
       THEN /\ message' = "No Customers"
            /\ kmeans_called' = FALSE
            /\ UNCHANGED <<store, plot>>
       ELSE IF initial_facility_locations = <<>>
       THEN /\ message' = "No Facilities"
            /\ kmeans_called' = FALSE
            /\ UNCHANGED <<store, plot>>
       ELSE \E out \in run_kmeans(customer_data, initial_facility_locations) :
            /\ kmeans_called' = TRUE
            /\ IF out.ok
               THEN /\ optimal_facility_locations' = Some(out.centers)
                    /\ cluster_labels' = Some(out.labels)
                    /\ message' = "Calculation Complete"
                    /\ UNCHANGED <<customer_data, initial_facility_locations>>
                    /\ Redraw(customer_data, initial_facility_locations,
                              Some(out.centers), Some(out.labels))
               ELSE /\ message' = "Error"
                    /\ cluster_labels' = None
                    /\ UNCHANGED <<customer_data, initial_facility_locations,
                                   optimal_facility_locations>>
                    /\ UNCHANGED plot

\* RunCalculation without the check for an empty facility list.
RunCalculationNoFacilityCheck ==
    /\ last_op' = "calculate"
    /\ IF customer_data = <<>>
       THEN /\ message' = "No Customers"
            /\ kmeans_called' = FALSE
            /\ UNCHANGED <<store, plot>>
       ELSE \E out \in run_kmeans(customer_data, initial_facility_locations) :
            /\ kmeans_called' = TRUE
            /\ IF out.ok
               THEN /\ optimal_facility_locations' = Some(out.centers)
                    /\ cluster_labels' = Some(out.labels)
                    /\ message' = "Calculation Complete"
                    /\ UNCHANGED <<customer_data, initial_facility_locations>>
                    /\ Redraw(customer_data, initial_facility_locations,
                              Some(out.centers), Some(out.labels))
               ELSE /\ message' = "Error"
                    /\ UNCHANGED <<store, plot>>

\* KMeansApp._run_calculation
RunCalculation ==
    /\ last_op' = "calculate"
    /\ IF customer_data = <<>>
       THEN /\ message' = "No Customers"
            /\ kmeans_called' = FALSE
            /\ UNCHANGED <<store, plot>>
       ELSE IF initial_facility_locations = <<>>
       THEN /\ message' = "No Facilities"
            /\ kmeans_called' = FALSE
            /\ UNCHANGED <<store, plot>>
       ELSE \E out \in run_kmeans(customer_data, initial_facility_locations) :
            /\ kmeans_called' = TRUE
            /\ IF out.ok
               THEN /\ optimal_facility_locations' = Some(out.centers)
                    /\ cluster_labels' = Some(out.labels)
                    /\ message' = "Calculation Complete"
                    /\ UNCHANGED <<customer_data, initial_facility_locations>>
                    /\ Redraw(customer_data, initial_facility_locations,
                              Some(out.centers), Some(out.labels))
               ELSE /\ message' = "Error"
                    /\ UNCHANGED <<store, plot>>

\* The text of an entry field: float() either parses it to a value (the text
\* "nan" to NaN) or raises ValueError.
EntryTexts ==
    {[parses |-> TRUE, value |-> v] : v \in EntryXs \cup EntryYs \cup {NaN}}
        \cup {[parses |-> FALSE, value |-> 0]}

\* A file picked in the import dialog: whether read_excel can read it, the
\* columns it has, and its rows.  A readable file has at least one of the two
\* columns: one with neither fails the same test as one without X.
Files ==
    {f \in [readable : {TRUE}, hasX : BOOLEAN, hasY : BOOLEAN,
            rows : SeqsUpTo(EntryPoints, MaxRows)] : f.hasX \/ f.hasY}
        \cup {[readable |-> FALSE, hasX |-> FALSE, hasY |-> FALSE, rows |-> <<>>]}

\* The answer of the file dialog: no path (cancelled) or one file.
DialogAnswers == {<<>>} \cup {<<f>> : f \in Files}

\* The answers on which an import returns True: a file was picked, it could
\* be read and it has both columns.
GoodFile(filepath) ==
    /\ filepath # <<>>
    /\ filepath[1].readable /\ filepath[1].hasX /\ filepath[1].hasY

\* KMeansApp._add_customer, the entries holding the texts ex and ey.
AddCustomerEntries(ex, ey) ==
         IF ex.parses /\ ey.parses
         THEN /\ ex.value \in EntryXs \cup {NaN} /\ ey.value \in EntryYs
              /\ Len(customer_data) < MaxStoredCustomers
              /\ customer_data' = Append(customer_data, <<ex.value, ey.value>>)
              /\ message' =
                     IF update_plot(customer_data', initial_facility_locations,
                                    optimal_facility_locations, cluster_labels)
                            = "ValueError"
                     THEN "Invalid Input" ELSE "none"
              /\ UNCHANGED <<initial_facility_locations,
                             optimal_facility_locations, cluster_labels>>
              /\ Redraw(customer_data', initial_facility_locations,
                        optimal_facility_locations, cluster_labels)
         ELSE /\ message' = "Invalid Input"
              /\ UNCHANGED <<store, plot>>

AddCustomer ==
    /\ last_op' = "add_customer"
    /\ kmeans_called' = FALSE
    /\ \E ex \in EntryTexts, ey \in EntryTexts : AddCustomerEntries(ex, ey)

\* KMeansApp._add_facility, the entries holding the texts ex and ey.
AddFacilityEntries(ex, ey) ==
         IF ex.parses /\ ey.parses
         THEN /\ ex.value \in EntryXs \cup {NaN} /\ ey.value \in EntryYs
              /\ Len(initial_facility_locations) < MaxStoredFacilities
              /\ initial_facility_locations' =
                     Append(initial_facility_locations, <<ex.value, ey.value>>)
              /\ message' =
                     IF update_plot(customer_data, initial_facility_locations',
                                    optimal_facility_locations, cluster_labels)
                            = "ValueError"
                     THEN "Invalid Input" ELSE "none"
              /\ UNCHANGED <<customer_data, optimal_facility_locations,
                             cluster_labels>>
              /\ Redraw(customer_data, initial_facility_locations',
                        optimal_facility_locations, cluster_labels)
         ELSE /\ message' = "Invalid Input"
              /\ UNCHANGED <<store, plot>>

AddFacility ==
    /\ last_op' = "add_facility"
    /\ kmeans_called' = FALSE
    /\ \E ex \in EntryTexts, ey \in EntryTexts : AddFacilityEntries(ex, ey)

\* DataManager.clear_customers
clear_customers ==
    /\ customer_data' = <<>>
    /\ UNCHANGED <<initial_facility_locations, optimal_facility_locations,
                   cluster_labels>>

\* DataManager.clear_facilities
clear_facilities ==
    /\ initial_facility_locations' = <<>>
    /\ optimal_facility_locations' = None
    /\ cluster_labels' = None
    /\ UNCHANGED customer_data

ClearCustomers ==
    /\ last_op' = "clear_customers"
    /\ kmeans_called' = FALSE
    /\ clear_customers
    /\ message' = "Cleared"
    /\ Redraw(customer_data', initial_facility_locations',
              optimal_facility_locations', cluster_labels')

ClearFacilities ==
    /\ last_op' = "clear_facilities"
    /\ kmeans_called' = FALSE
    /\ clear_facilities
    /\ message' = "Cleared"
    /\ Redraw(customer_data', initial_facility_locations',
              optimal_facility_locations', cluster_labels')

\* import_customers_excel extending the list before the columns are checked.
import_customers_excel_ExtendsFirst(filepath) ==
    IF filepath = <<>>
    THEN /\ message' = "none"
         /\ UNCHANGED store
    ELSE LET f == filepath[1] IN
         /\ Len(customer_data) + Len(f.rows) <= MaxStoredCustomers
         /\ customer_data' = customer_data \o f.rows
         /\ message' = IF ~f.readable \/ ~f.hasX \/ ~f.hasY
                       THEN "Error" ELSE "Success"
         /\ UNCHANGED <<initial_facility_locations, optimal_facility_locations,
                        cluster_labels>>

\* DataManager.import_customers_excel, the dialog answering filepath.
import_customers_excel(filepath) ==
    IF filepath = <<>>
    THEN /\ message' = "none"
         /\ UNCHANGED store
    ELSE LET f == filepath[1] IN
    IF ~f.readable \/ ~f.hasX \/ ~f.hasY
    THEN /\ message' = "Error"
         /\ UNCHANGED store
    ELSE /\ message' = "Success"
         /\ Len(customer_data) + Len(f.rows) <= MaxStoredCustomers
         /\ customer_data' = customer_data \o f.rows
         /\ UNCHANGED <<initial_facility_locations, optimal_facility_locations,
                        cluster_labels>>

import_facilities_excel(filepath) ==
    IF filepath = <<>>
    THEN /\ message' = "none"
         /\ UNCHANGED store
    ELSE LET f == filepath[1] IN
    IF ~f.readable \/ ~f.hasX \/ ~f.hasY
    THEN /\ message' = "Error"
         /\ UNCHANGED store
    ELSE /\ message' = "Success"
         /\ Len(initial_facility_locations) + Len(f.rows) <= MaxStoredFacilities
         /\ initial_facility_locations' = initial_facility_locations \o f.rows
         /\ UNCHANGED <<customer_data, optimal_facility_locations,
                        cluster_labels>>

ImportCustomers ==
    /\ last_op' = "import_customers"
    /\ kmeans_called' = FALSE
    /\ \E filepath \in DialogAnswers :
         /\ import_customers_excel(filepath)
         /\ IF GoodFile(filepath)
            THEN Redraw(customer_data', initial_facility_locations',
                        optimal_facility_locations', cluster_labels')
            ELSE UNCHANGED plot

ImportFacilities ==
    /\ last_op' = "import_facilities"
    /\ kmeans_called' = FALSE
    /\ \E filepath \in DialogAnswers :
         /\ import_facilities_excel(filepath)
         /\ IF GoodFile(filepath)
            THEN Redraw(customer_data', initial_facility_locations',
                        optimal_facility_locations', cluster_labels')
            ELSE UNCHANGED plot

Next ==
    \/ AddCustomer
    \/ AddFacility
    \/ ImportCustomers
    \/ ImportFacilities
    \/ ClearCustomers
    \/ ClearFacilities
    \/ RunCalculation

Spec == Init /\ [][Next]_vars

\* The clustering call on its own: any two input sequences, then the call.
NextKMeans == RunCalculation

InitKMeans ==
    /\ \/ /\ customer_data \in SeqsUpTo(Points, MaxCustomers)
          /\ initial_facility_locations \in SeqsUpTo(Points, MaxFacilities)
       \/ /\ customer_data \in SeqsUpTo(SpreadCustomers, MaxSpreadCustomers)
          /\ initial_facility_locations
                 \in SeqsUpTo(SpreadFacilities, MaxSpreadFacilities)
       \/ /\ customer_data \in Orders(ScenarioCustomers)
          /\ initial_facility_locations \in Orders(ScenarioFacilities)
    /\ optimal_facility_locations = None
    /\ cluster_labels = None
    /\ message = "none"
    /\ last_op = "init"
    /\ kmeans_called = FALSE
    /\ circles = None
    /\ limit_radii = None

SpecKMeans == InitKMeans /\ [][NextKMeans]_vars

\* ------------------------------------------------------------ geometry
Scaled(p) == <<Scale * p[1], Scale * p[2]>>

\* Twice the signed area of the triangle a, b, c.
Cross(a, b, c) ==
    (b[1] - a[1]) * (c[2] - a[2]) - (b[2] - a[2]) * (c[1] - a[1])

InBox(c, a, b, d) ==
    \A t \in 1..2 : /\ Min2(a[t], Min2(b[t], d[t])) <= c[t]
                    /\ c[t] <= Max2(a[t], Max2(b[t], d[t]))

\* c lies in the (possibly degenerate) triangle a, b, d.
InTriangle(c, a, b, d) ==
    /\ InBox(c, a, b, d)
    /\ \/ Cross(a, b, c) >= 0 /\ Cross(b, d, c) >= 0 /\ Cross(d, a, c) >= 0
       \/ Cross(a, b, c) <= 0 /\ Cross(b, d, c) <= 0 /\ Cross(d, a, c) <= 0

\* c lies in the convex hull of the planar points pts: in a triangle of
\* three of them.
HullContains(c, pts) ==
    \E a \in pts, b \in pts, d \in pts : InTriangle(c, a, b, d)

\* ---------------------------------------------------------- the claims
HasResult == optimal_facility_locations # None /\ cluster_labels # None
Cen == optimal_facility_locations[1]
Lab == cluster_labels[1]
NCust == Len(customer_data)
NFac == Len(initial_facility_locations)
\* The last handler was a calculation whose clustering call succeeded: the
\* stored result is that of the current two sequences.
CalcDone == last_op = "calculate" /\ message = "Calculation Complete"
CustomersOf(j) == {Scaled(customer_data[i]) : i \in Members(Lab, j)}

\* C1: in every reachable state a present result is consistent with the
\* current sequences: one label per current customer and as many final
\* facilities as current initial facilities.
C1_ResultConsistent ==
    /\ cluster_labels # None => Len(Lab) = NCust
    /\ optimal_facility_locations # None => Len(Cen) = NFac

\* C2: after clear_customers, and after clear_facilities, the stored result
\* (final facility positions and labels) is absent.
C2_ClearInvalidatesResult ==
    [][last_op' \in {"clear_customers", "clear_facilities"}
          => optimal_facility_locations' = None /\ cluster_labels' = None]_vars

\* C3: a calculation whose clustering call fails reports the error and leaves
\* the data store as it was: both sequences and both parts of the result.
C3_FailedCallLeavesStore ==
    [][(/\ last_op' = "calculate"
        /\ kmeans_called'
        /\ Failure \in run_kmeans(customer_data, initial_facility_locations))
          => message' = "Error" /\ store' = store]_vars

\* A failed call with a result of an earlier calculation still stored.
C3_Witness ==
    /\ last_op = "calculate" /\ kmeans_called /\ message = "Error"
    /\ HasResult

\* C4: a calculation triggered with no customers or no initial facilities
\* warns, does not invoke the clustering call and leaves the data store as
\* it was.
C4_EmptyInputRejected ==
    [][(/\ last_op' = "calculate"
        /\ customer_data = <<>> \/ initial_facility_locations = <<>>)
          => /\ message' \in {"No Customers", "No Facilities"}
             /\ ~kmeans_called'
             /\ store' = store]_vars

\* A calculation refused for want of customers while a result is stored.
C4_Witness ==
    /\ last_op = "calculate" /\ message = "No Customers" /\ ~kmeans_called
    /\ customer_data = <<>> /\ initial_facility_locations # <<>>
    /\ HasResult

\* C6: with exactly one initial facility and at least one customer the call
\* succeeds, the single final facility is the arithmetic mean of all customers
\* and every customer has label 0.
C6_SingleFacilityIsMean ==
    (last_op = "calculate" /\ NFac = 1 /\ NCust >= 1)
        => /\ CalcDone /\ HasResult
           /\ Len(Cen) = 1
           /\ Cen[1][1] * NCust = Scale * SumCoord(customer_data, 1..NCust, 1)
           /\ Cen[1][2] * NCust = Scale * SumCoord(customer_data, 1..NCust, 2)
           /\ Lab = [i \in 1..NCust |-> 0]

\* One facility, customers at different points, the facility moved to their
\* mean.
C6_Witness ==
    /\ CalcDone /\ NFac = 1 /\ NCust >= 2
    /\ \E i \in 1..NCust : customer_data[i] # customer_data[1]
    /\ Cen[1] # Scaled(initial_facility_locations[1])

\* C7: after a successful call every customer has exactly one label, every
\* label is in 0..k-1, and the number of distinct labels is at most k.
C7_LabelsInRange ==
    CalcDone
        => /\ HasResult
           /\ Len(Lab) = NCust
           /\ \A i \in 1..NCust : Lab[i] \in 0..(NFac - 1)
           /\ Cardinality({Lab[i] : i \in 1..NCust}) <= NFac

\* Three facilities of which only two received customers.
C7_Witness ==
    /\ CalcDone /\ NFac = 3
    /\ Cardinality({Lab[i] : i \in 1..NCust}) = 2

C9_MoreFacilitiesThanCustomersFails ==
    [][(last_op' = "calculate" /\ NCust >= 1 /\ NFac > NCust)
          => /\ kmeans_called'
             /\ message' = "Error"
             /\ optimal_facility_locations' = optimal_facility_locations
             /\ cluster_labels' = cluster_labels]_vars

\* Two facilities, one customer, the error reported.
C9_Witness ==
    /\ last_op = "calculate" /\ message = "Error"
    /\ NCust = 1 /\ NFac = 2

GoodAnswers == {filepath \in DialogAnswers : GoodFile(filepath)}
BadAnswers == DialogAnswers \ GoodAnswers

\* C10: an import that fails (dialog cancelled, unreadable file, X or Y column
\* missing) leaves both sequences and the result unchanged; a successful one
\* appends the file's rows, in order, to the end of its own sequence only.
C10_ImportAllOrNothing ==
    [][/\ last_op' = "import_customers" =>
            /\ (\E filepath \in BadAnswers : import_customers_excel(filepath))
                  => UNCHANGED store
            /\ \A filepath \in GoodAnswers :
                  import_customers_excel(filepath)
                    => /\ customer_data' = customer_data \o filepath[1].rows
                       /\ UNCHANGED <<initial_facility_locations,
                                      optimal_facility_locations,
                                      cluster_labels>>
       /\ last_op' = "import_facilities" =>
            /\ (\E filepath \in BadAnswers : import_facilities_excel(filepath))
                  => UNCHANGED store
            /\ \A filepath \in GoodAnswers :
                  import_facilities_excel(filepath)
                    => /\ initial_facility_locations'
                              = initial_facility_locations \o filepath[1].rows
                       /\ UNCHANGED <<customer_data,
                                      optimal_facility_locations,
                                      cluster_labels>>]_vars

\* A failed customer import onto a store that holds customers and a result.
C10_Witness ==
    /\ last_op = "import_customers" /\ message = "Error"
    /\ customer_data # <<>> /\ HasResult


\* An entry text that is a number: float() parses it, and to a number.
NumericEntry(e) == e.parses /\ IsNumber(e.value)

\* C11: adding a customer or a facility with a non-numeric X or Y entry shows
\* an error message and leaves the store unchanged; with two numeric entries
\* exactly one point, the one entered, is appended to the end of the
\* corresponding sequence and nothing else changes.
C11_AddRejectsNonNumeric ==
    [][\A ex \in EntryTexts, ey \in EntryTexts :
         /\ (last_op' = "add_customer" /\ AddCustomerEntries(ex, ey))
              => IF NumericEntry(ex) /\ NumericEntry(ey)
                 THEN /\ customer_data'
                            = Append(customer_data, <<ex.value, ey.value>>)
                      /\ UNCHANGED <<initial_facility_locations,
                                     optimal_facility_locations,
                                     cluster_labels>>
                 ELSE /\ message' = "Invalid Input"
                      /\ UNCHANGED store
         /\ (last_op' = "add_facility" /\ AddFacilityEntries(ex, ey))
              => IF NumericEntry(ex) /\ NumericEntry(ey)
                 THEN /\ initial_facility_locations'
                            = Append(initial_facility_locations,
                                     <<ex.value, ey.value>>)
                      /\ UNCHANGED <<customer_data,
                                     optimal_facility_locations,
                                     cluster_labels>>
                 ELSE /\ message' = "Invalid Input"
                      /\ UNCHANGED store]_vars

\* The number of customers with each label, by facility.
ClusterSizes == [j \in 1..NFac |-> Cardinality(Members(Lab, j))]
ScenarioCalculated ==
    /\ CalcDone
    /\ customer_data = ScenarioCustomers
    /\ initial_facility_locations = ScenarioFacilities

\* C12: for customers [(0,0), (10,0), (0,10), (10,10)] and initial facilities
\* [(1,1), (9,9)] the clustering call ends with two clusters of two points
\* each.
C12_ScenarioTwoAndTwo ==
    ScenarioCalculated => ClusterSizes = <<2, 2>>

\* C12, as the call behaves: (10,0) and (0,10) are equally far from both
\* initial facilities and go to the first, so the call ends with three
\* customers at the first facility, which lies at their mean (10/3, 10/3),
\* and (10,10) alone at the second, which lies on it.
C12_ScenarioThreeAndOne ==
    ScenarioCalculated
        => /\ Lab = <<0, 0, 0, 1>>
           /\ Cen = <<<<(Scale \div 3) * 10, (Scale \div 3) * 10>>,
                      <<Scale * 10, Scale * 10>>>>

\* The scenario has been calculated, and both tied customers carry label 0.
C12_Witness ==
    /\ ScenarioCalculated /\ HasResult
    /\ SqDist(customer_data[2], Scaled(initial_facility_locations[1]))
           = SqDist(customer_data[2], Scaled(initial_facility_locations[2]))
    /\ Lab[2] = 0 /\ Lab[3] = 0

\* The squared distances from final facility i to the customers labelled i.
OwnDistances(i) ==
    {SqDist(customer_data[n], Cen[i]) : n \in Members(Lab, i)}

\* C13: whenever the circles have been drawn, the radius of facility i's
\* circle is the largest distance from final facility i to a customer with
\* label i, and 0 when no customer has label i; the radii computed for the
\* plot limits are the same as those of the circles.
C13_RadiusIsMaxDistance ==
    circles # None
        => /\ HasResult
           /\ Len(circles[1]) = Len(Cen)
           /\ \A i \in 1..Len(Cen) :
                 circles[1][i] = IF OwnDistances(i) = {} THEN 0
                                 ELSE MaxOf(OwnDistances(i))
           /\ limit_radii = circles

\* Circles drawn after a calculation: one facility serves customers at
\* different distances and its circle reaches the farthest of them.
C13_Witness ==
    /\ CalcDone /\ circles # None
    /\ \E i \in 1..Len(Cen) :
         /\ Cardinality(OwnDistances(i)) >= 2
         /\ circles[1][i] > 0
         /\ circles[1][i] = limit_radii[1][i]

\* Circles drawn with a facility that serves no customer: its radius is 0.
C13_EmptyClusterDrawn ==
    /\ CalcDone /\ circles # None
    /\ \E i \in 1..Len(Cen) : Members(Lab, i) = {} /\ circles[1][i] = 0

\* The stored result is what the given build returns for the stored input.
ResultOf(rule) ==
    [ok |-> TRUE, centers |-> Cen, labels |-> Lab]
        \in KMeansFitBuild(rule, customer_data, initial_facility_locations)

\* C14: the result does not depend on the order of the customers: the call
\* on any rearrangement of the customers, with the same initial facilities,
\* returns the same final facility positions and gives every customer the
\* facility it has now (the labels rearranged as the customers are).
C14_CustomerOrderIrrelevant ==
    CalcDone
        => \A rule \in TieRules :
             ResultOf(rule)
               => \A pi \in Perms(NCust) :
                    KMeansFitBuild(rule, Permuted(customer_data, pi),
                                   initial_facility_locations)
                        = {[ok |-> TRUE, centers |-> Cen,
                            labels |-> Permuted(Lab, pi)]}

=============================================================================
